---- MODULE Spec2Model ----
(***************************************************************************)
(* Model of the visiting-card extraction service: the response parser and  *)
(* normalizer (extract_info.py), the merger (merge_info.py), the emptiness *)
(* predicate (info_utils.py, app.py) and the request handler               *)
(* process_extraction_request (app.py).                                    *)
(*                                                                         *)
(* Python strings are sequences of one-character strings, so that strip(), *)
(* lower() and the substring test are computed.  A JSON value is a tagged  *)
(* record; a Python dict is a function from a finite set of keys.          *)
(***************************************************************************)
EXTENDS Integers, Sequences, FiniteSets, TLC

(***************************************************************************)
(* Bounds of the model.                                                    *)
(***************************************************************************)
\* longest raw array given for a field
MaxArr == 2
\* most keys present in one raw object of the normalizer's specification
MaxKeys == 2
\* most image URLs in one request
MaxUrls == 3
\* most path segments in the object key of the first image
MaxKeyParts == 3

(***************************************************************************)
(* JSON values as json.loads produces them.                                *)
(***************************************************************************)
Null == [t |-> "null"]
Str(s) == [t |-> "str", v |-> s]
Num(n) == [t |-> "num", v |-> n]
Bool(b) == [t |-> "bool", v |-> b]
Arr(a) == [t |-> "arr", v |-> a]
Map(f) == [t |-> "map", v |-> f]

EmptyDict == [k \in {} |-> Null]

\* dict.get(key): None when the key is absent
Get(d, k) == IF k \in DOMAIN d THEN d[k] ELSE Null

\* d[key] = value
Put(d, k, x) == [y \in (DOMAIN d) \cup {k} |-> IF y = k THEN x ELSE d[y]]

\* Python truth value of a JSON value
Truthy(x) ==
    CASE x.t = "null" -> FALSE
      [] x.t = "str" -> x.v # <<>>
      [] x.t = "num" -> x.v # 0
      [] x.t = "bool" -> x.v
      [] x.t = "arr" -> x.v # <<>>
      [] x.t = "map" -> DOMAIN x.v # {}

(***************************************************************************)
(* Python string operations.                                               *)
(***************************************************************************)
Whitespace == {" ", "\n"}

RECURSIVE LStrip(_)
LStrip(s) == IF s # <<>> /\ Head(s) \in Whitespace THEN LStrip(Tail(s)) ELSE s

RECURSIVE RStrip(_)
RStrip(s) ==
    IF s # <<>> /\ s[Len(s)] \in Whitespace
    THEN RStrip(SubSeq(s, 1, Len(s) - 1))
    ELSE s

\* str.strip()
Strip(s) == RStrip(LStrip(s))

LowerChar(c) ==
    CASE c = "A" -> "a"
      [] c = "B" -> "b"
      [] c = "Q" -> "q"
      [] c = "T" -> "t"
      [] c = "N" -> "n"
      [] OTHER -> c

\* str.lower()
Lower(s) == [i \in 1..Len(s) |-> LowerChar(s[i])]

\* sub in s
Contains(sub, s) ==
    \E i \in 0..(Len(s) - Len(sub)) : SubSeq(s, i + 1, i + Len(sub)) = sub

DigitChars == <<"0", "1", "2", "3", "4", "5", "6", "7", "8", "9">>

RECURSIVE NumStr(_)
NumStr(n) ==
    IF n < 10
    THEN <<DigitChars[n + 1]>>
    ELSE NumStr(n \div 10) \o <<DigitChars[(n % 10) + 1]>>

\* str(x) of a scalar
PyStr(x) ==
    CASE x.t = "str" -> x.v
      [] x.t = "num" -> NumStr(x.v)
      [] x.t = "bool" -> IF x.v THEN <<"T", "r", "u", "e">>
                                ELSE <<"F", "a", "l", "s", "e">>
      [] x.t = "null" -> <<"N", "o", "n", "e">>

\* the elements of xs that are truthy, in order
RECURSIVE SelectTruthy(_)
SelectTruthy(xs) ==
    IF xs = <<>> THEN <<>>
    ELSE IF Truthy(Head(xs)) THEN <<Head(xs)>> \o SelectTruthy(Tail(xs))
    ELSE SelectTruthy(Tail(xs))

\* [str(item).strip() for item in xs if item]
ListComp(xs) ==
    LET kept == SelectTruthy(xs)
    IN  [i \in 1..Len(kept) |-> Strip(PyStr(kept[i]))]

\* a Python list of str as a JSON array
StrArr(l) == Arr([i \in 1..Len(l) |-> Str(l[i])])

(***************************************************************************)
(* Model response text: a sequence of pieces.  Fence is the three          *)
(* backticks, Label the letters json, Ws white space, Junk any text that   *)
(* is not JSON, and Json(x) the serialisation of the JSON value x.         *)
(***************************************************************************)
Fence == [t |-> "fence"]
Label == [t |-> "label"]
Ws == [t |-> "ws"]
Junk == [t |-> "junk"]
Json(x) == [t |-> "json", v |-> x]

\* the serialisation of x, one of whose strings holds three backticks, is
\* <<JsonHead(x), Fence, JsonTail(x)>>: the text before them and after them
JsonHead(x) == [t |-> "jsonhead", v |-> x]
JsonTail(x) == [t |-> "jsontail", v |-> x]

\* least i with text[i] = Fence (labelled: followed by Label), 0 when none
FirstFence(text, labelled) ==
    LET hits == {i \in 1..Len(text) :
                    /\ text[i] = Fence
                    /\ labelled => (i < Len(text) /\ text[i + 1] = Label)}
    IN  IF hits = {} THEN 0 ELSE CHOOSE i \in hits : \A j \in hits : i <= j

\* text.split(sep)[1].split("```")[0], sep the fence starting at i and
\* width pieces long
Between(text, i, width) ==
    LET rest == SubSeq(text, i + width, Len(text))
        labelled == width = 2
        stop == FirstFence(rest, labelled)
        part == IF stop = 0 THEN rest ELSE SubSeq(rest, 1, stop - 1)
        close == FirstFence(part, FALSE)
    IN  IF close = 0 THEN part ELSE SubSeq(part, 1, close - 1)

RECURSIVE LStripWs(_)
LStripWs(text) ==
    IF text # <<>> /\ Head(text) = Ws THEN LStripWs(Tail(text)) ELSE text

RECURSIVE RStripWs(_)
RStripWs(text) ==
    IF text # <<>> /\ text[Len(text)] = Ws
    THEN RStripWs(SubSeq(text, 1, Len(text) - 1))
    ELSE text

\* the text handed to json.loads
StripFence(text) ==
    IF FirstFence(text, TRUE) # 0
    THEN RStripWs(LStripWs(Between(text, FirstFence(text, TRUE), 2)))
    ELSE IF FirstFence(text, FALSE) # 0
    THEN RStripWs(LStripWs(Between(text, FirstFence(text, FALSE), 1)))
    ELSE text

\* json.loads: the value, or JSONDecodeError
JsonLoads(text) ==
    LET body == RStripWs(LStripWs(text))
    IN  IF Len(body) = 1 /\ body[1].t = "json"
        THEN [kind |-> "ok", value |-> body[1].v]
        ELSE IF /\ Len(body) = 3
                /\ body[1].t = "jsonhead"
                /\ body[2] = Fence
                /\ body[3] = JsonTail(body[1].v)
        THEN [kind |-> "ok", value |-> body[1].v]
        ELSE [kind |-> "raise", exc |-> "JSONDecodeError"]

(***************************************************************************)
(* The normalizer: the body of extract_information after json.loads.       *)
(***************************************************************************)
\* the list a multi-value field is normalized to
FieldList(x) ==
    IF Truthy(x)
    THEN IF x.t = "arr" THEN ListComp(x.v)
         ELSE IF x.t = "str" THEN <<Strip(x.v)>>
         ELSE <<>>
    ELSE <<>>

\* the value stored for a multi-value field: the list, None when it is empty
FieldValue(l) == IF l # <<>> THEN StrArr(l) ELSE Null

\* company_name with company_quote absorbed: the list, or the exception
CompanyNames(company_name, company_quote) ==
    LET names == FieldList(company_name)
    IN  IF Truthy(company_name)
        THEN IF Truthy(company_quote) /\ names # <<>>
             THEN IF company_quote.t # "str"
                  THEN [kind |-> "raise", exc |-> "TypeError"]
                  ELSE IF ~Contains(company_quote.v, names[1])
                  THEN [kind |-> "ok",
                        list |-> <<Strip(names[1] \o <<"\n">> \o company_quote.v)>>
                                 \o Tail(names)]
                  ELSE [kind |-> "ok", list |-> names]
             ELSE [kind |-> "ok", list |-> names]
        ELSE IF Truthy(company_quote)
        THEN IF company_quote.t # "str"
             THEN [kind |-> "raise", exc |-> "AttributeError"]
             ELSE [kind |-> "ok", list |-> <<Strip(company_quote.v)>>]
        ELSE [kind |-> "ok", list |-> <<>>]

Platforms == {"facebook", "instagram", "linkedin", "twitter", "youtube"}

\* social_media_profiles_obj, built from the top-level keys of the object
SocialProfiles(d) ==
    [p \in Platforms \cup {"other"} |->
        IF p = "other"
        THEN IF FieldList(Get(d, "other")) # <<>>
             THEN StrArr(FieldList(Get(d, "other")))
             ELSE Arr(<<>>)
        ELSE FieldValue(FieldList(Get(d, p)))]

\* the normalized category
Category(category) ==
    IF Truthy(category)
    THEN IF category.t = "arr"
         THEN IF ListComp(category.v) # <<>>
              THEN Str(ListComp(category.v)[1])
              ELSE Null
         ELSE IF category.t = "str"
         THEN IF Strip(category.v) # <<>> THEN Str(Strip(category.v)) ELSE Null
         ELSE Null
    ELSE Null

ListFields == {"person_name", "contact_numbers", "address", "services", "website"}

\* lines 16-195 of extract_information on the parsed value
NormalizeRecord(parsed) ==
    IF parsed.t # "map"
    THEN [kind |-> "raise", exc |-> "AttributeError"]
    ELSE LET d == parsed.v
             company == CompanyNames(Get(d, "company_name"), Get(d, "company_quote"))
         IN  IF company.kind = "raise"
             THEN company
             ELSE [kind |-> "ok",
                   data |->
                     [k \in (DOMAIN d) \cup ListFields
                            \cup {"company_name", "company_quote",
                                  "social_media_profiles", "category"} |->
                        CASE k = "company_name" -> FieldValue(company.list)
                          [] k = "company_quote" -> Null
                          [] k \in ListFields -> FieldValue(FieldList(Get(d, k)))
                          [] k = "social_media_profiles" -> Map(SocialProfiles(d))
                          [] k = "category" -> Category(Get(d, "category"))
                          [] OTHER -> d[k]]]

\* extract_information(response_text): the record, or the exception raised
extract_information(response_text) ==
    LET loaded == JsonLoads(StripFence(response_text))
    IN  IF loaded.kind = "raise" THEN loaded ELSE NormalizeRecord(loaded.value)

(***************************************************************************)
(* The merger: merge_extracted_data.                                       *)
(***************************************************************************)
\* companiesN after the quote of the same side is absorbed, or the exception
MergeCompanyNames(company, quote) ==
    LET companies == FieldList(company)
    IN  IF Truthy(quote) /\ companies # <<>>
        THEN IF quote.t # "str"
             THEN [kind |-> "raise", exc |-> "TypeError"]
             ELSE IF ~Contains(quote.v, companies[1])
             THEN [kind |-> "ok",
                   list |-> <<Strip(companies[1] \o <<"\n">> \o quote.v)>>
                            \o Tail(companies)]
             ELSE [kind |-> "ok", list |-> companies]
        ELSE IF Truthy(quote) /\ companies = <<>>
        THEN IF quote.t # "str"
             THEN [kind |-> "raise", exc |-> "AttributeError"]
             ELSE [kind |-> "ok", list |-> <<Strip(quote.v)>>]
        ELSE [kind |-> "ok", list |-> companies]

\* the loop over all_companies / all_persons: strings compared lower-cased
\* and stripped, first occurrence kept
RECURSIVE DedupNames(_, _)
DedupNames(items, seen) ==
    IF items = <<>> THEN <<>>
    ELSE LET item == Head(items)
             normalized == Strip(Lower(item))
         IN  IF normalized # <<>> /\ normalized \notin seen
             THEN <<item>> \o DedupNames(Tail(items), seen \cup {normalized})
             ELSE DedupNames(Tail(items), seen)

\* combined, as one side adds to it: extend by a list, append anything else
Combined(x) ==
    IF Truthy(x) THEN (IF x.t = "arr" THEN x.v ELSE <<x>>) ELSE <<>>

\* TRUE when item.lower() raises for some truthy item
LowerRaises(items) ==
    \E i \in 1..Len(items) : Truthy(items[i]) /\ items[i].t # "str"

\* the loop over combined: items compared lower-cased, first occurrence kept
RECURSIVE DedupItems(_, _)
DedupItems(items, seen) ==
    IF items = <<>> THEN <<>>
    ELSE LET item == Head(items)
         IN  IF Truthy(item) /\ Lower(item.v) \notin seen
             THEN <<item>> \o DedupItems(Tail(items), seen \cup {Lower(item.v)})
             ELSE DedupItems(Tail(items), seen)

\* an array field merged as the single-value fields are: the left side when
\* it has a value, else the right side
MergeArrayFieldLeft(x1, x2) ==
    LET combined == IF Truthy(x1) THEN Combined(x1) ELSE Combined(x2)
    IN  IF LowerRaises(combined)
        THEN [kind |-> "raise", exc |-> "AttributeError"]
        ELSE [kind |-> "ok",
              value |-> IF DedupItems(combined, {}) # <<>>
                        THEN Arr(DedupItems(combined, {}))
                        ELSE Null]

\* merged[field] of an array field, or the exception
MergeArrayField(x1, x2) ==
    LET combined == Combined(x1) \o Combined(x2)
    IN  IF LowerRaises(combined)
        THEN [kind |-> "raise", exc |-> "AttributeError"]
        ELSE [kind |-> "ok",
              value |-> IF DedupItems(combined, {}) # <<>>
                        THEN Arr(DedupItems(combined, {}))
                        ELSE Null]

\* a or b or None
FirstTruthy(a, b) == IF Truthy(a) THEN a ELSE IF Truthy(b) THEN b ELSE Null

\* one side's category as the merge normalizes it
MergeCategoryOf(category) ==
    IF category.t = "arr" THEN category.v[1]
    ELSE IF category.t = "str"
    THEN (IF Strip(category.v) # <<>> THEN Str(Strip(category.v)) ELSE Null)
    ELSE Null

\* merged['category']
MergeCategory(category1, category2) ==
    IF Truthy(category1) THEN MergeCategoryOf(category1)
    ELSE IF Truthy(category2) THEN MergeCategoryOf(category2)
    ELSE Null

\* img_data.get('social_media_profiles', {}) or {}
SocialOf(d) ==
    IF Truthy(Get(d, "social_media_profiles"))
    THEN Get(d, "social_media_profiles")
    ELSE Map(EmptyDict)

\* what other_list.extend(social['other']) adds: the elements of a list, the
\* characters of a string (other is never a mapping in the inputs modelled)
OtherItems(social) ==
    LET other == Get(social, "other")
    IN  IF ~Truthy(other) THEN <<>>
        ELSE IF other.t = "arr" THEN other.v
        ELSE [i \in 1..Len(other.v) |-> Str(<<other.v[i]>>)]

\* TRUE when extend raises: the truthy value is not iterable
ExtendRaises(social) ==
    Truthy(Get(social, "other")) /\ Get(social, "other").t \in {"num", "bool"}

\* merged['social_media_profiles'], or the exception
MergeSocial(s1, s2) ==
    IF s1.t # "map" \/ s2.t # "map"
    THEN [kind |-> "raise", exc |-> "AttributeError"]
    ELSE IF ExtendRaises(s1.v) \/ ExtendRaises(s2.v)
    THEN [kind |-> "raise", exc |-> "TypeError"]
    ELSE LET other_list == OtherItems(s1.v) \o OtherItems(s2.v)
         IN  IF LowerRaises(other_list)
             THEN [kind |-> "raise", exc |-> "AttributeError"]
             ELSE [kind |-> "ok",
                   value |-> Map([p \in Platforms \cup {"other"} |->
                       IF p = "other"
                       THEN Arr(DedupItems(other_list, {}))
                       ELSE FirstTruthy(Get(s1.v, p), Get(s2.v, p))])]

ArrayFields == {"contact_numbers", "email_addresses", "services", "website"}

\* merge_extracted_data(img_data_image1, img_data_image2): the merged record,
\* or the exception raised
merge_extracted_data(d1, d2) ==
    LET c1 == MergeCompanyNames(Get(d1, "company_name"), Get(d1, "company_quote"))
        c2 == MergeCompanyNames(Get(d2, "company_name"), Get(d2, "company_quote"))
        arrays == [f \in ArrayFields |-> MergeArrayField(Get(d1, f), Get(d2, f))]
        social == MergeSocial(SocialOf(d1), SocialOf(d2))
    IN  IF c1.kind = "raise" THEN c1
        ELSE IF c2.kind = "raise" THEN c2
        ELSE IF \E f \in ArrayFields : arrays[f].kind = "raise"
        THEN [kind |-> "raise", exc |-> "AttributeError"]
        ELSE IF social.kind = "raise" THEN social
        ELSE [kind |-> "ok",
              data |->
                [k \in ArrayFields
                       \cup {"company_name", "company_quote", "person_name",
                             "address", "category", "social_media_profiles"} |->
                   CASE k = "company_name" ->
                          FieldValue(DedupNames(c1.list \o c2.list, {}))
                     [] k = "company_quote" -> Null
                     [] k = "person_name" ->
                          FieldValue(DedupNames(FieldList(Get(d1, k))
                                                \o FieldList(Get(d2, k)), {}))
                     [] k = "address" -> FirstTruthy(Get(d1, k), Get(d2, k))
                     [] k = "category" -> MergeCategory(Get(d1, k), Get(d2, k))
                     [] k \in ArrayFields -> arrays[k].value
                     [] k = "social_media_profiles" -> social.value]]

(***************************************************************************)
(* The emptiness predicate.                                                *)
(***************************************************************************)
\* has_content(value)
RECURSIVE has_content(_)
has_content(x) ==
    CASE x.t = "null" -> FALSE
      [] x.t = "str" -> Strip(x.v) # <<>>
      [] x.t = "arr" -> \E i \in 1..Len(x.v) : has_content(x.v[i])
      [] x.t = "map" -> \E k \in DOMAIN x.v : has_content(x.v[k])
      [] OTHER -> Truthy(x)

KeyFields ==
    {"company_name", "person_name", "contact_numbers", "email_addresses",
     "address", "website", "services", "category"}

\* is_empty_extraction(extracted_data)
is_empty_extraction(d) ==
    /\ \A f \in KeyFields : ~has_content(Get(d, f))
    /\ ~has_content(IF "social_media_profiles" \in DOMAIN d
                    THEN d["social_media_profiles"]
                    ELSE Map(EmptyDict))

(***************************************************************************)
(* Inputs.                                                                 *)
(***************************************************************************)
\* sequences over S of length at most n
SeqsUpTo(S, n) == UNION {[1..m -> S] : m \in 0..n}

\* elements of a raw array
ElemVals == {Null, Str(<<" ">>), Str(<<"a">>), Str(<<"A", " ">>), Num(5)}

\* raw values of a field that is not an array
ScalarVals ==
    {Null, Str(<<>>), Str(<<" ">>), Str(<<"a">>), Str(<<" ", "b">>),
     Num(0), Num(5), Bool(TRUE), Map(EmptyDict)}

\* raw values of a multi-value field or of category
FieldVals == ScalarVals \cup {Arr(a) : a \in SeqsUpTo(ElemVals, MaxArr)}

\* raw values of company_quote
QuoteVals ==
    {Null, Str(<<>>), Str(<<"a">>), Str(<<"q">>), Str(<<" ", "q", " ">>),
     Num(5), Arr(<<Str(<<"q">>)>>)}

\* raw values of social_media_profiles
SocialVals ==
    {Null, Str(<<"a">>), Map(EmptyDict)}
    \cup {Map([k \in {p} |-> x]) :
            p \in {"facebook", "other"},
            x \in {Null, Str(<<"a">>), Str(<<" ">>), Arr(<<>>),
                   Arr(<<Str(<<"a">>)>>), Arr(<<Str(<<"a">>), Str(<<"A">>)>>)}}

RawKeys ==
    {"company_name", "company_quote", "person_name", "contact_numbers",
     "email_addresses", "address", "services", "website", "category",
     "social_media_profiles", "facebook", "other"}

\* the raw values drawn for a key
ValsOf(k) ==
    CASE k = "company_quote" -> QuoteVals
      [] k = "social_media_profiles" -> SocialVals
      [] OTHER -> FieldVals

\* [keys -> values], each key with its own values
ObjectsOver(keys) == {f \in [keys -> FieldVals \cup QuoteVals \cup SocialVals] :
                        \A k \in keys : f[k] \in ValsOf(k)}

\* the parsed raw objects: mappings with at most n keys
RawObjects(n) ==
    UNION {ObjectsOver(keys) :
             keys \in {ks \in SUBSET RawKeys : Cardinality(ks) <= n}}

\* the objects the model returns to the request handler
SampleObjects ==
    {EmptyDict,
     [k \in {"company_name"} |-> Str(<<"a">>)],
     [k \in {"company_name"} |-> Str(<<"q">>)],
     [k \in {"company_name"} |-> Arr(<<Str(<<"b">>), Str(<<"A">>)>>)],
     [k \in {"company_name", "company_quote"} |->
         IF k = "company_name" THEN Str(<<"a">>) ELSE Num(5)],
     [k \in {"email_addresses"} |-> Arr(<<Str(<<"a">>)>>)],
     [k \in {"email_addresses"} |-> Num(5)],
     [k \in {"email_addresses"} |-> Num(0)],
     [k \in {"category"} |-> Str(<<" ">>)],
     [k \in {"other"} |-> Str(<<"a">>)]}

\* the response texts of the model: prose, JSON that is no mapping, and
\* mappings bare or fenced
ModelTexts ==
    {<<Junk>>, <<Json(Arr(<<>>))>>, <<Json(Null)>>, <<Json(Str(<<"a">>))>>}
    \cup {<<Json(Map(o))>> : o \in SampleObjects}
    \cup {<<Fence, Label, Ws, Json(Map(EmptyDict)), Ws, Fence>>,
          <<Fence, Ws, Json(Map(EmptyDict)), Ws, Fence>>,
          <<Fence, Label, Ws, Junk, Ws, Fence>>,
          <<Junk, Fence, Ws, Json(Arr(<<>>)), Ws, Fence>>}

\* the request bodies: data, its image_urls, upload_results and the number of
\* path segments of the first image's key
Requests ==
    {[data |-> "falsy", image_urls |-> Null, upload_results |-> TRUE, key_parts |-> 1],
     [data |-> "list", image_urls |-> Null, upload_results |-> TRUE, key_parts |-> 1]}
    \cup [data : {"dict"},
          image_urls : {Null, Str(<<"u">>)}
                       \cup {Arr([i \in 1..n |-> Str(<<"u">>)]) : n \in 0..MaxUrls},
          upload_results : BOOLEAN,
          key_parts : 1..MaxKeyParts]

(***************************************************************************)
(* State.                                                                  *)
(***************************************************************************)
VARIABLES
    pc,               \* position in process_extraction_request
    request,          \* data, the argument of process_extraction_request
    images,           \* number of images downloaded (process_images)
    texts,            \* response_text of each image
    records,          \* data_image1, data_image2
    extracted_data,   \* extracted_data of process_extraction_request
    warning_message,  \* warning_message, <<>> for None
    result_key,       \* result_key
    uploads,          \* the bodies put to S3
    response,         \* the (response, status) returned
    log,              \* the calls made, in order
    raw,              \* a parsed raw object given to the normalizer
    rec,              \* what extract_information returns for raw (or text)
    again,            \* what the normalizer returns for the record rec
    model_text,       \* a response text given to extract_information
    handed,           \* the text extract_information hands to json.loads
    raw2,             \* the parsed raw object of the second image
    rec2,             \* what extract_information returns for raw2
    merged,           \* what merge_extracted_data returns for rec, rec2
    swapped,          \* what merge_extracted_data returns for rec2, rec
    heap,             \* the mapping objects of the merge: name -> contents
    merged_id         \* the object merge_extracted_data returned

vars ==
    <<pc, request, images, texts, records, extracted_data, warning_message,
      result_key, uploads, response, log, raw, rec, again, model_text, handed,
      raw2, rec2, merged, swapped, heap, merged_id>>

\* the variables only the specification of the merger changes
merger_vars == <<raw2, rec2, merged, swapped, heap, merged_id>>

\* the variables of the specifications of the pure functions
pure_vars == <<raw, rec, again, model_text, handed, merger_vars>>

handler_vars ==
    <<request, images, texts, records, extracted_data, warning_message,
      result_key, uploads, response, log>>

None == [kind |-> "none"]

HandlerIdle ==
    /\ images = 0
    /\ texts = <<>>
    /\ records = <<>>
    /\ extracted_data = None
    /\ warning_message = <<>>
    /\ result_key = "None"
    /\ uploads = <<>>
    /\ response = None
    /\ log = <<>>

NormalizerIdle ==
    /\ raw = EmptyDict
    /\ rec = None
    /\ again = None

ParserIdle ==
    /\ model_text = <<>>
    /\ handed = None

MergerIdle ==
    /\ raw2 = EmptyDict
    /\ rec2 = None
    /\ merged = None
    /\ swapped = None
    /\ heap = EmptyDict
    /\ merged_id = "None"

Init ==
    /\ pc = "start"
    /\ request \in Requests
    /\ HandlerIdle
    /\ NormalizerIdle
    /\ ParserIdle
    /\ MergerIdle

(***************************************************************************)
(* process_extraction_request, step by step.                               *)
(***************************************************************************)
\* return {'error': ...}, status
ReturnError(status, message) ==
    /\ response' = [status |-> status, body |-> [error |-> message]]
    /\ pc' = "done"

NumUrls == Len(request.image_urls.v)

\* the checks of the request without the one for more than two images
ValidateRequestNoMaximum ==
    /\ pc = "start"
    /\ IF request.data = "falsy"
       THEN ReturnError(400, <<"Request body must be JSON/dict">>)
       ELSE IF request.data = "list"
       THEN ReturnError(500, <<"Internal server error", "AttributeError">>)
       ELSE IF ~Truthy(request.image_urls)
       THEN ReturnError(400, <<"image_urls field is required">>)
       ELSE IF request.image_urls.t # "arr"
       THEN ReturnError(400, <<"image_urls must be an array">>)
       ELSE pc' = "download" /\ UNCHANGED response
    /\ UNCHANGED <<request, images, texts, records, extracted_data,
                   warning_message, result_key, uploads, log, pure_vars>>

\* the checks of the request before process_images
ValidateRequest ==
    /\ pc = "start"
    /\ IF request.data = "falsy"
       THEN ReturnError(400, <<"Request body must be JSON/dict">>)
       ELSE IF request.data = "list"
       THEN ReturnError(500, <<"Internal server error", "AttributeError">>)
       ELSE IF ~Truthy(request.image_urls)
       THEN ReturnError(400, <<"image_urls field is required">>)
       ELSE IF request.image_urls.t # "arr"
       THEN ReturnError(400, <<"image_urls must be an array">>)
       ELSE IF NumUrls > 2
       THEN ReturnError(400, <<"Maximum 2 images are supported">>)
       ELSE IF NumUrls = 0
       THEN ReturnError(400, <<"At least 1 image URL is required">>)
       ELSE pc' = "download" /\ UNCHANGED response
    /\ UNCHANGED <<request, images, texts, records, extracted_data,
                   warning_message, result_key, uploads, log, pure_vars>>

\* process_images without its except clause: the exception reaches the handler
ProcessImagesUnwrapped(exc) ==
    IF exc \in {"ValueError", "JSONDecodeError"}
    THEN ReturnError(400, <<exc>>)
    ELSE ReturnError(500, <<"Internal server error", exc>>)

\* what process_images raises for the exception exc, as the handler returns it
ProcessImagesFails(exc) ==
    ReturnError(400, <<"Failed to process images", exc>>)

\* download_image_from_s3 of the next URL
DownloadImage ==
    /\ pc = "download"
    /\ \E ok \in BOOLEAN :
          IF ok
          THEN /\ images' = images + 1
               /\ pc' = IF images + 1 = NumUrls THEN "generate" ELSE "download"
               /\ UNCHANGED response
          ELSE /\ ProcessImagesFails("ValueError")
               /\ UNCHANGED images
    /\ UNCHANGED <<request, texts, records, extracted_data, warning_message,
                   result_key, uploads, log, pure_vars>>

\* generate_response for the next image
GenerateResponse ==
    /\ pc = "generate"
    /\ log' = Append(log, <<"generate_response", Len(texts) + 1>>)
    /\ \/ \E text \in ModelTexts :
             /\ texts' = Append(texts, text)
             /\ pc' = IF Len(texts) + 1 = NumUrls THEN "extract" ELSE "generate"
             /\ UNCHANGED response
       \/ /\ ProcessImagesFails("ValueError")
          /\ UNCHANGED texts
    /\ UNCHANGED <<request, images, records, extracted_data, warning_message,
                   result_key, uploads, pure_vars>>

\* extract_information of the next response text, the merge started as soon
\* as one record of two is there
ExtractInformationEager ==
    /\ pc = "extract"
    /\ log' = Append(log, <<"extract_information", Len(records) + 1>>)
    /\ LET i == Len(records) + 1
           r == extract_information(texts[i])
       IN  IF r.kind = "raise"
           THEN /\ ProcessImagesFails(r.exc)
                /\ UNCHANGED <<records, extracted_data>>
           ELSE /\ records' = Append(records, r.data)
                /\ UNCHANGED response
                /\ IF NumUrls = 2
                   THEN pc' = "merge" /\ UNCHANGED extracted_data
                   ELSE pc' = "check" /\ extracted_data' = [kind |-> "ok", data |-> r.data]
    /\ UNCHANGED <<request, images, texts, warning_message, result_key,
                   uploads, pure_vars>>

\* extract_information of the next response text
ExtractInformation ==
    /\ pc = "extract"
    /\ log' = Append(log, <<"extract_information", Len(records) + 1>>)
    /\ LET i == Len(records) + 1
           r == extract_information(texts[i])
       IN  IF r.kind = "raise"
           THEN /\ ProcessImagesFails(r.exc)
                /\ UNCHANGED <<records, extracted_data>>
           ELSE /\ records' = Append(records, r.data)
                /\ UNCHANGED response
                /\ IF i < NumUrls
                   THEN pc' = "extract" /\ UNCHANGED extracted_data
                   ELSE IF NumUrls = 2
                   THEN pc' = "merge" /\ UNCHANGED extracted_data
                   ELSE pc' = "check" /\ extracted_data' = [kind |-> "ok", data |-> r.data]
    /\ UNCHANGED <<request, images, texts, warning_message, result_key,
                   uploads, pure_vars>>

\* merge_extracted_data(data_image1, data_image2)
MergeExtractedData ==
    /\ pc = "merge"
    /\ log' = Append(log, <<"merge_extracted_data", 0>>)
    /\ LET m == merge_extracted_data(records[1], records[2])
       IN  IF m.kind = "raise"
           THEN /\ ProcessImagesFails(m.exc)
                /\ UNCHANGED extracted_data
           ELSE /\ extracted_data' = [kind |-> "ok", data |-> m.data]
                /\ pc' = "check"
                /\ UNCHANGED response
    /\ UNCHANGED <<request, images, texts, records, warning_message,
                   result_key, uploads, pure_vars>>

\* extracted_data with info_id and event_id added from the parts of the key
WithIds(d, key_parts) ==
    LET d1 == IF key_parts >= 2 THEN Put(d, "info_id", Str(<<"i">>)) ELSE d
    IN  IF key_parts >= 3 THEN Put(d1, "event_id", Str(<<"e">>)) ELSE d1

EmptyWarning == <<"Warning: No visiting card information was extracted">>

\* the ids from the key, then the emptiness check
CheckExtraction ==
    /\ pc = "check"
    /\ log' = Append(log, <<"is_empty_extraction", 0>>)
    /\ LET d == WithIds(extracted_data.data, request.key_parts)
       IN  /\ extracted_data' = [kind |-> "ok", data |-> d]
           /\ warning_message' = IF is_empty_extraction(d) THEN EmptyWarning ELSE <<>>
    /\ pc' = IF request.upload_results THEN "upload" ELSE "respond"
    /\ UNCHANGED <<request, images, texts, records, result_key, uploads,
                   response, pure_vars>>

\* upload_data_to_s3 without the try around it: its exception reaches the
\* handler of process_extraction_request
UploadResultsUncaught ==
    /\ pc = "upload"
    /\ log' = Append(log, <<"upload_data_to_s3", 0>>)
    /\ \E ok \in BOOLEAN :
          IF ok
          THEN /\ uploads' = Append(uploads, extracted_data.data)
               /\ result_key' = "extraction_result.json"
               /\ pc' = "respond"
               /\ UNCHANGED response
          ELSE /\ ReturnError(400, <<"Failed to upload data to S3">>)
               /\ UNCHANGED <<uploads, result_key>>
    /\ UNCHANGED <<request, images, texts, records, extracted_data,
                   warning_message, pure_vars>>

\* upload_data_to_s3, which succeeds or raises
UploadResults ==
    /\ pc = "upload"
    /\ log' = Append(log, <<"upload_data_to_s3", 0>>)
    /\ \E ok \in BOOLEAN :
          IF ok
          THEN /\ uploads' = Append(uploads, extracted_data.data)
               /\ result_key' = "extraction_result.json"
               /\ UNCHANGED warning_message
          ELSE /\ warning_message' =
                     (IF warning_message # <<>> THEN warning_message
                      ELSE <<"Extraction successful.">>)
                     \o <<"However, failed to upload results to S3">>
               /\ UNCHANGED <<uploads, result_key>>
    /\ pc' = "respond"
    /\ UNCHANGED <<request, images, texts, records, extracted_data, response,
                   pure_vars>>

\* the response of a successful extraction
SuccessBody ==
    IF warning_message # <<>>
    THEN [success |-> TRUE, data |-> extracted_data.data,
          s3_result_key |-> result_key, warning |-> warning_message]
    ELSE [success |-> TRUE, data |-> extracted_data.data,
          s3_result_key |-> result_key]

\* return response, 200
SendResponse ==
    /\ pc = "respond"
    /\ response' = [status |-> 200, body |-> SuccessBody]
    /\ pc' = "done"
    /\ UNCHANGED <<request, images, texts, records, extracted_data,
                   warning_message, result_key, uploads, log, pure_vars>>

Next ==
    \/ ValidateRequest
    \/ DownloadImage
    \/ GenerateResponse
    \/ ExtractInformation
    \/ MergeExtractedData
    \/ CheckExtraction
    \/ UploadResults
    \/ SendResponse

Spec == Init /\ [][Next]_vars

(***************************************************************************)
(* The normalizer on its own: extract_information on the text of a parsed  *)
(* raw object, then the normalizer again on the record it returned.        *)
(***************************************************************************)
InitNormalizer ==
    /\ pc = "raw"
    /\ request = [data |-> "falsy", image_urls |-> Null,
                  upload_results |-> TRUE, key_parts |-> 1]
    /\ HandlerIdle
    /\ raw \in RawObjects(MaxKeys)
    /\ rec = None
    /\ again = None
    /\ ParserIdle
    /\ MergerIdle

\* extract_information on the serialised raw object
Extract ==
    /\ pc = "raw"
    /\ rec' = extract_information(<<Json(Map(raw))>>)
    /\ pc' = "extracted"
    /\ UNCHANGED <<handler_vars, raw, again, model_text, handed, merger_vars>>

\* extract_information on the serialised record
Renormalize ==
    /\ pc = "extracted"
    /\ rec.kind = "ok"
    /\ again' = extract_information(<<Json(Map(rec.data))>>)
    /\ pc' = "renormalized"
    /\ UNCHANGED <<handler_vars, raw, rec, model_text, handed, merger_vars>>

NextNormalizer == Extract \/ Renormalize

SpecNormalizer == InitNormalizer /\ [][NextNormalizer]_vars

(***************************************************************************)
(* Properties of the normalizer.                                           *)
(***************************************************************************)
MultiFields ==
    {"company_name", "person_name", "contact_numbers", "email_addresses",
     "address", "services", "website"}

SocialFields == Platforms \cup {"other"}

\* null, or a sequence of strings
IsStringsOrNull(x) ==
    x = Null \/ (x.t = "arr" /\ \A i \in 1..Len(x.v) : x.v[i].t = "str")

\* null, or a sequence with at least one element
IsFilledOrNull(x) == x = Null \/ (x.t = "arr" /\ Len(x.v) >= 1)

\* a string that is empty or white space only
IsBlank(x) == x.t = "str" /\ Strip(x.v) = <<>>

\* the record has no empty sequence in a sequence-or-null field
HasNoEmptySequence(d) ==
    /\ \A f \in MultiFields : IsFilledOrNull(Get(d, f))
    /\ Get(d, "social_media_profiles").t = "map"
    /\ \A p \in SocialFields :
          IsFilledOrNull(Get(Get(d, "social_media_profiles").v, p))

\* C1: every record returned by extract_information has each multi-value
\* field null or a sequence of strings, and category null or one string.
C1_CanonicalShape ==
    rec.kind = "ok" =>
        /\ \A f \in MultiFields : IsStringsOrNull(Get(rec.data, f))
        /\ Get(rec.data, "category").t \in {"null", "str"}

\* C2: no record returned by extract_information or by merge_extracted_data
\* holds an empty sequence in a multi-value field or in a subfield of
\* social_media_profiles.
C2_NoEmptySequence ==
    /\ \A i \in 1..Len(records) : HasNoEmptySequence(records[i])
    /\ (Len(records) = 2 /\ extracted_data.kind = "ok")
          => HasNoEmptySequence(extracted_data.data)

\* a raw value that is a white-space-only string, or a sequence whose
\* elements are all empty or white-space-only strings
IsAllBlank(x) ==
    \/ x.t = "str" /\ x.v # <<>> /\ IsBlank(x)
    \/ x.t = "arr" /\ x.v # <<>> /\ \A i \in 1..Len(x.v) : IsBlank(x.v[i])

\* C3: a normalized multi-value field holds no empty or white-space-only
\* entry, and is null when the raw value is all blank (and no company_quote
\* is given to fill it).
C3_NoBlankEntries ==
    rec.kind = "ok" =>
        \A f \in MultiFields :
            LET out == Get(rec.data, f)
            IN  /\ out.t = "arr" => \A i \in 1..Len(out.v) : ~IsBlank(out.v[i])
                /\ (f \in DOMAIN raw /\ IsAllBlank(raw[f])
                      /\ "company_quote" \notin DOMAIN raw) => out = Null

\* the strings of a normalized field
EntriesOf(x) == IF x.t = "arr" THEN [i \in 1..Len(x.v) |-> PyStr(x.v[i])] ELSE <<>>

\* no two entries equal after trimming and lower-casing
NoDuplicates(l) ==
    \A i, j \in 1..Len(l) : i < j => Strip(Lower(l[i])) # Strip(Lower(l[j]))

DedupFields == ListFields \cup {"company_name"}

\* C4: the normalization of a raw sequence (here: of non-blank strings) has no
\* two entries equal after trimming and lower-casing; the first occurrence
\* survives, in input order.
C4_DedupFirstWins ==
    rec.kind = "ok" =>
        \A f \in DedupFields :
            (/\ f \in DOMAIN raw
             /\ raw[f].t = "arr"
             /\ \A i \in 1..Len(raw[f].v) : raw[f].v[i].t = "str" /\ ~IsBlank(raw[f].v[i])
             /\ "company_quote" \notin DOMAIN raw)
            => LET out == EntriesOf(Get(rec.data, f))
               IN  /\ NoDuplicates(out)
                   /\ out = DedupNames(FieldList(raw[f]), {})

\* the first element that is non-empty after trimming, null when there is none
RECURSIVE FirstNonBlank(_)
FirstNonBlank(xs) ==
    IF xs = <<>> THEN Null
    ELSE IF Head(xs) # Null /\ Strip(PyStr(Head(xs))) # <<>>
    THEN Str(Strip(PyStr(Head(xs))))
    ELSE FirstNonBlank(Tail(xs))

\* C5: a category given as a non-empty array is normalized to the first
\* element that is non-empty after trimming, null when there is none; the
\* normalized category is never an array and never the empty string.
C5_CategoryScalar ==
    rec.kind = "ok" =>
        /\ Get(rec.data, "category").t # "arr"
        /\ Get(rec.data, "category") # Str(<<>>)
        /\ ("category" \in DOMAIN raw /\ raw["category"].t = "arr"
              /\ raw["category"].v # <<>>)
           => Get(rec.data, "category") = FirstNonBlank(raw["category"].v)

\* C6: a non-empty company_quote (here: one without surrounding white space)
\* is appended to the first company name after a newline when that name does
\* not contain it, and is the only company name when normalization of
\* company_name leaves no entry.
C6_QuoteAbsorbed ==
    (/\ rec.kind = "ok"
     /\ "company_quote" \in DOMAIN raw
     /\ raw["company_quote"].t = "str"
     /\ raw["company_quote"].v # <<>>
     /\ Strip(raw["company_quote"].v) = raw["company_quote"].v)
    => LET quote == raw["company_quote"].v
           names == DedupNames(FieldList(Get(raw, "company_name")), {})
           out == EntriesOf(Get(rec.data, "company_name"))
       IN  /\ names = <<>> => out = <<quote>>
           /\ (names # <<>> /\ ~Contains(quote, names[1]))
                 => (out # <<>> /\ out[1] = names[1] \o <<"\n">> \o quote)

\* C7: social_media_profiles of the record holds, per subfield, the
\* multi-value normalization of the raw mapping's value for the same key, and
\* six nulls when the raw social_media_profiles is missing or null.
C7_SocialNormalized ==
    rec.kind = "ok" =>
        LET social == Get(raw, "social_media_profiles")
            out == Get(rec.data, "social_media_profiles")
        IN  /\ social.t = "map" =>
                  \A p \in SocialFields :
                      Get(out.v, p) = FieldValue(FieldList(Get(social.v, p)))
            /\ social = Null => \A p \in SocialFields : Get(out.v, p) = Null

\* C8: normalizing a record that extract_information returned yields the
\* same record.
C8_Idempotent ==
    pc = "renormalized" => (again.kind = "ok" /\ again.data = rec.data)

\* C9: extract_information returns a record for every raw mapping, and a
\* field of unexpected type is null in it.
C9_NeverRaises ==
    pc # "raw" =>
        /\ rec.kind = "ok"
        /\ \A f \in (MultiFields \cup {"category"}) \cap DOMAIN raw :
              raw[f].t \in {"num", "bool", "map"} => Get(rec.data, f) = Null

(***************************************************************************)
(* Properties of the request handler.                                      *)
(***************************************************************************)
\* the text is not valid JSON after fence stripping
IsMalformed(text) == JsonLoads(StripFence(text)).kind = "raise"

\* the text parses to a value that is not a mapping
IsNotMapping(text) ==
    /\ JsonLoads(StripFence(text)).kind = "ok"
    /\ JsonLoads(StripFence(text)).value.t # "map"

HasStructuralError ==
    \E i \in 1..Len(texts) : IsMalformed(texts[i]) \/ IsNotMapping(texts[i])

Called(name) == \E i \in 1..Len(log) : log[i][1] = name

\* C10: when a model text is not valid JSON or parses to a value that is not
\* a mapping, the response carries only an error message with status 400,
\* the same for both kinds, and nothing is uploaded.
C10_StructuralError ==
    HasStructuralError =>
        /\ uploads = <<>>
        /\ ~Called("upload_data_to_s3")
        /\ pc \in {"generate", "extract", "done"}
        /\ pc = "done" =>
              /\ response.status = 400
              /\ DOMAIN response.body = {"error"}
              /\ response.body.error[1] = "Failed to process images"

\* a request of two images ends in the error of a second text that is no
\* mapping, after the first text was normalized
C10_Witness ==
    /\ pc = "done"
    /\ Len(texts) = 2
    /\ Len(records) = 1
    /\ IsNotMapping(texts[2])
    /\ response = [status |-> 400,
                   body |-> [error |-> <<"Failed to process images", "AttributeError">>]]

(***************************************************************************)
(* The response parser: extract_information on response texts.             *)
(***************************************************************************)
MaxBlocks == 5

\* an object one of whose strings holds three backticks (each written tick)
TickObject == [k \in {"company_name"} |-> Str(<<"a", "tick", "tick", "tick", "b">>)]

\* the parts response texts are made of
TextBlocks ==
    {<<Junk>>, <<Ws>>, <<Fence>>, <<Label>>,
     <<Json(Map(EmptyDict))>>,
     <<Json(Map([k \in {"company_name"} |-> Str(<<"a">>)]))>>,
     <<JsonHead(Map(TickObject)), Fence, JsonTail(Map(TickObject))>>}

RECURSIVE TextsOf(_)
TextsOf(n) ==
    IF n = 0 THEN {<<>>}
    ELSE {<<>>} \cup {b \o t : b \in TextBlocks, t \in TextsOf(n - 1)}

InitParser ==
    /\ pc = "text"
    /\ request = [data |-> "falsy", image_urls |-> Null,
                  upload_results |-> TRUE, key_parts |-> 1]
    /\ HandlerIdle
    /\ NormalizerIdle
    /\ model_text \in TextsOf(MaxBlocks)
    /\ handed = None
    /\ MergerIdle

\* extract_information on a response text: the text it hands to json.loads
\* and what it returns
ParseResponse ==
    /\ pc = "text"
    /\ handed' = [kind |-> "text", text |-> StripFence(model_text)]
    /\ rec' = extract_information(model_text)
    /\ pc' = "parsed"
    /\ UNCHANGED <<handler_vars, raw, again, model_text, merger_vars>>

NextParser == ParseResponse

SpecParser == InitParser /\ [][NextParser]_vars
(***************************************************************************)
(* Properties of the response parser.                                      *)
(***************************************************************************)
\* the fences of t: the positions of the three backticks
FencesOf(t) == {i \in 1..Len(t) : t[i] = Fence}

\* the least element of a non-empty set of numbers
Least(S) == CHOOSE i \in S : \A j \in S : i <= j

\* the last piece of the first opening fence of t: the label when it is
\* labelled json
OpeningEnd(t) ==
    LET open == Least(FencesOf(t))
    IN  IF open < Len(t) /\ t[open + 1] = Label THEN open + 1 ELSE open

\* t has a first fence pair: an opening fence and a next fence
HasFencePair(t) ==
    FencesOf(t) # {} /\ \E j \in FencesOf(t) : j > OpeningEnd(t)

\* the content between the first opening fence of t and the next fence
FencedContent(t) ==
    LET close == Least({j \in FencesOf(t) : j > OpeningEnd(t)})
    IN  SubSeq(t, OpeningEnd(t) + 1, close - 1)

\* t is the serialisation of a JSON object, white space around it allowed
IsObjectText(t) ==
    JsonLoads(t).kind = "ok" /\ JsonLoads(t).value.t = "map"

\* t wraps a JSON object in its first fenced block
WrapsObject(t) == HasFencePair(t) /\ IsObjectText(FencedContent(t))

\* C11: the parser strips exactly the first fence pair: of a text wrapping a
\* JSON object in a fenced block, labelled json or not, the content between
\* the first opening fence and the next fence is handed to json.loads; an
\* unfenced JSON object is handed over unchanged and parses.
C11_FirstFencePair ==
    pc = "parsed" =>
        /\ WrapsObject(model_text) =>
               handed.text = RStripWs(LStripWs(FencedContent(model_text)))
        /\ (~WrapsObject(model_text) /\ IsObjectText(model_text)) =>
               /\ handed.text = model_text
               /\ rec.kind = "ok"
(***************************************************************************)
(* The merger: merge_extracted_data on the records extract_information     *)
(* returns for two raw objects, then the ids the caller adds.              *)
(***************************************************************************)
MaxMergeArr == 2

\* elements of the raw arrays of the two images
MergeElems == {Str(<<"a">>), Str(<<"A", " ">>), Str(<<"b">>)}

\* raw values of a field of the two images: scalars, an array of one blank
\* string and the arrays of at most n elements
MergeVals(n) ==
    {Null, Str(<<" ">>), Str(<<"a">>), Num(5), Arr(<<Str(<<" ">>)>>)}
    \cup {Arr(a) : a \in SeqsUpTo(MergeElems, n)}

MergeKeys ==
    {"company_name", "person_name", "contact_numbers", "email_addresses",
     "address", "services", "website", "category", "facebook", "other"}

\* the parsed raw objects of the two images: one field each, or none, and
\* two cards with several fields
MergeObjects(n) ==
    {EmptyDict}
    \cup {[k \in {f} |-> x] : f \in MergeKeys, x \in MergeVals(n)}
    \cup {[k \in {"company_name", "email_addresses", "address"} |->
              IF k = "address" THEN Str(<<"b">>) ELSE Arr(<<Str(<<"a">>)>>)],
          [k \in {"category", "facebook", "other"} |->
              IF k = "other" THEN Arr(<<Str(<<"b">>)>>) ELSE Str(<<"a">>)]}

InitMerger ==
    /\ pc = "pair"
    /\ request = [data |-> "falsy", image_urls |-> Null,
                  upload_results |-> TRUE, key_parts |-> MaxKeyParts]
    /\ HandlerIdle
    /\ raw \in MergeObjects(MaxMergeArr)
    /\ raw2 \in MergeObjects(MaxMergeArr)
    /\ rec = None
    /\ rec2 = None
    /\ again = None
    /\ merged = None
    /\ swapped = None
    /\ heap = EmptyDict
    /\ merged_id = "None"
    /\ ParserIdle

\* extract_information on the serialised raw object of each image
ExtractPair ==
    /\ pc = "pair"
    /\ rec' = extract_information(<<Json(Map(raw))>>)
    /\ rec2' = extract_information(<<Json(Map(raw2))>>)
    /\ pc' = "records"
    /\ UNCHANGED <<handler_vars, raw, raw2, again, merged, swapped, heap,
                   merged_id, model_text, handed>>

\* the mapping object merge_extracted_data fills and returns
ReturnedObjectLeft == "img_data_image1"

ReturnedObject == "merged"

\* merge_extracted_data on the two records, in both orders; the records are
\* the objects img_data_image1 and img_data_image2, the result is written
\* into the object returned
MergePair ==
    /\ pc = "records"
    /\ rec.kind = "ok" /\ rec2.kind = "ok"
    /\ merged' = merge_extracted_data(rec.data, rec2.data)
    /\ swapped' = merge_extracted_data(rec2.data, rec.data)
    /\ LET inputs == Put(Put(EmptyDict, "img_data_image1", rec.data),
                         "img_data_image2", rec2.data)
       IN  IF merged'.kind = "ok"
           THEN /\ heap' = Put(inputs, ReturnedObject, merged'.data)
                /\ merged_id' = ReturnedObject
           ELSE /\ heap' = inputs
                /\ merged_id' = "None"
    /\ pc' = "merged"
    /\ UNCHANGED <<handler_vars, raw, raw2, rec, rec2, again, model_text, handed>>

\* the caller adds info_id and event_id to the object the merge returned
AddIds ==
    /\ pc = "merged"
    /\ merged.kind = "ok"
    /\ heap' = Put(heap, merged_id, WithIds(heap[merged_id], request.key_parts))
    /\ pc' = "ids"
    /\ UNCHANGED <<handler_vars, raw, raw2, rec, rec2, again, merged, swapped,
                   merged_id, model_text, handed>>

NextMerger == ExtractPair \/ MergePair \/ AddIds

SpecMerger == InitMerger /\ [][NextMerger]_vars
(***************************************************************************)
(* Properties of the merger.                                               *)
(***************************************************************************)
UnionFields ==
    {"company_name", "person_name", "contact_numbers", "email_addresses",
     "services", "website"}

\* the entries of a field of a record: the elements of a sequence, none for
\* null, a value that is no sequence counted as its only entry
FieldEntries(x) ==
    IF x = Null THEN <<>> ELSE IF x.t = "arr" THEN x.v ELSE <<x>>

\* an entry trimmed and lower-cased
EntryKey(e) == Strip(Lower(PyStr(e)))

\* es without every entry that equals an earlier one after trimming and
\* lower-casing
RECURSIVE KeepFirst(_, _)
KeepFirst(es, seen) ==
    IF es = <<>> THEN <<>>
    ELSE IF EntryKey(Head(es)) \in seen THEN KeepFirst(Tail(es), seen)
    ELSE <<Head(es)>> \o KeepFirst(Tail(es), seen \cup {EntryKey(Head(es))})

\* the entries of es that are not blank
RECURSIVE NonBlank(_)
NonBlank(es) ==
    IF es = <<>> THEN <<>>
    ELSE IF EntryKey(Head(es)) = <<>> THEN NonBlank(Tail(es))
    ELSE <<Head(es)>> \o NonBlank(Tail(es))

\* left's entries followed by right's, first occurrences only
UnionOf(left, right) ==
    KeepFirst(NonBlank(FieldEntries(left) \o FieldEntries(right)), {})

\* C12: for company_name, person_name, contact_numbers, email_addresses,
\* services and website the merge of two records of extract_information is
\* left's entries followed by right's without the entries that equal an
\* earlier one after trimming and lower-casing, and is never an empty
\* sequence.  Stated of the merges that return; blank entries are left out
\* of the comparison.
C12_UnionFirstWins ==
    (pc = "merged" /\ merged.kind = "ok") =>
        \A f \in UnionFields :
            /\ NonBlank(FieldEntries(merged.data[f]))
                   = UnionOf(Get(rec.data, f), Get(rec2.data, f))
            /\ merged.data[f] # Arr(<<>>)
\* null, or a sequence of trimmed, non-blank strings, no two of them equal
\* after lower-casing
IsCanonicalList(x) ==
    \/ x = Null
    \/ /\ x.t = "arr"
       /\ \A i \in 1..Len(x.v) :
             x.v[i].t = "str" /\ x.v[i].v # <<>> /\ Strip(x.v[i].v) = x.v[i].v
       /\ \A i, j \in 1..Len(x.v) : i < j => EntryKey(x.v[i]) # EntryKey(x.v[j])

\* the record has the canonical shape in every field (the empty sequence
\* that every record of extract_information holds as other is admitted)
IsCanonicalRecord(d) ==
    /\ \A f \in UnionFields \cup {"address"} : IsCanonicalList(Get(d, f))
    /\ \/ Get(d, "category") = Null
       \/ /\ Get(d, "category").t = "str"
          /\ Get(d, "category").v # <<>>
          /\ Strip(Get(d, "category").v) = Get(d, "category").v
    /\ Get(d, "social_media_profiles").t = "map"
    /\ \A p \in SocialFields :
          IsCanonicalList(Get(Get(d, "social_media_profiles").v, p))

\* the set of values of a field, and the set of its values trimmed and
\* lower-cased
ValueSet(x) == {FieldEntries(x)[i] : i \in 1..Len(FieldEntries(x))}
KeySet(x) == {EntryKey(e) : e \in ValueSet(x)}

\* both merges are of canonical records
CanonicalPair ==
    /\ pc = "merged"
    /\ IsCanonicalRecord(rec.data)
    /\ IsCanonicalRecord(rec2.data)

\* C13 as stated: for canonical records A and B the set of values of every
\* field merged by union is the same in merge(A, B) and merge(B, A).
C13_SameValues ==
    CanonicalPair =>
        /\ merged.kind = "ok" /\ swapped.kind = "ok"
        /\ \A f \in UnionFields :
              ValueSet(merged.data[f]) = ValueSet(swapped.data[f])

\* C13 amended: for canonical records A and B the set of values of every
\* field merged by union, the values compared trimmed and lower-cased, is
\* the same in merge(A, B) and merge(B, A), and is the union of the two
\* sides' sets.
C13_SameKeys ==
    CanonicalPair =>
        /\ merged.kind = "ok" /\ swapped.kind = "ok"
        /\ \A f \in UnionFields :
              /\ KeySet(merged.data[f]) = KeySet(swapped.data[f])
              /\ KeySet(merged.data[f])
                    = KeySet(Get(rec.data, f)) \cup KeySet(Get(rec2.data, f))
        /\ KeySet(merged.data["social_media_profiles"].v["other"])
              = KeySet(swapped.data["social_media_profiles"].v["other"])

\* two canonical records whose merges differ in the order of a field
C13_Witness ==
    /\ CanonicalPair
    /\ merged.kind = "ok" /\ swapped.kind = "ok"
    /\ \E f \in UnionFields :
          /\ Get(rec.data, f) # Null /\ Get(rec2.data, f) # Null
          /\ merged.data[f] # swapped.data[f]
          /\ Len(FieldEntries(merged.data[f])) > 1
\* C21: merge_extracted_data is total on the records of extract_information:
\* for every pair of records it returns a record and does not raise.
C21_MergeTotal ==
    pc \in {"merged", "ids"} => merged.kind = "ok"

\* left when it is not null, else right
FirstNonNull(left, right) == IF left # Null THEN left ELSE right

\* C15: the merged address is left's address when that is not null, else
\* right's, else null; the merged category is left's category when that is
\* not null, else right's, else null, and is a scalar or null.
C15_SingleValueLeftWins ==
    (pc = "merged" /\ merged.kind = "ok") =>
        /\ merged.data["address"]
              = FirstNonNull(Get(rec.data, "address"), Get(rec2.data, "address"))
        /\ merged.data["category"]
              = FirstNonNull(Get(rec.data, "category"), Get(rec2.data, "category"))
        /\ merged.data["category"].t \in {"null", "str"}

\* social_media_profiles[p] of the record d
SocialEntry(d, p) == Get(Get(d, "social_media_profiles").v, p)

\* C16: each merged platform is left's value when that is not null, else
\* right's, else null; the merged other is left's other followed by right's
\* without the entries that equal an earlier one after lower-casing, and is
\* null, never an empty sequence, when nothing survives.  Blank entries are
\* left out of the comparison.
C16_SocialMerge ==
    (pc = "merged" /\ merged.kind = "ok") =>
        /\ \A p \in Platforms :
              SocialEntry(merged.data, p)
                 = FirstNonNull(SocialEntry(rec.data, p), SocialEntry(rec2.data, p))
        /\ NonBlank(FieldEntries(SocialEntry(merged.data, "other")))
              = UnionOf(SocialEntry(rec.data, "other"),
                        SocialEntry(rec2.data, "other"))
        /\ SocialEntry(merged.data, "other") # Arr(<<>>)

\* C17: merge_extracted_data leaves both input records unchanged: after the
\* call, and after the caller has added info_id and event_id to the merged
\* record, the objects img_data_image1 and img_data_image2 hold the records
\* they held before the call.
C17_InputsUnchanged ==
    pc \in {"merged", "ids"} =>
        /\ heap["img_data_image1"] = rec.data
        /\ heap["img_data_image2"] = rec2.data

\* the ids are in the merged record, which has left's address, and in
\* neither input
C17_Witness ==
    /\ pc = "ids"
    /\ {"info_id", "event_id"} \subseteq DOMAIN heap[merged_id]
    /\ Get(rec.data, "address") # Null
    /\ heap[merged_id]["address"] = rec.data["address"]
    /\ Get(rec2.data, "company_name") # Null
    /\ "info_id" \notin DOMAIN heap["img_data_image1"]
    /\ "info_id" \notin DOMAIN heap["img_data_image2"]

(***************************************************************************)
(* Properties of the request handler on merged and empty records.          *)
(***************************************************************************)
\* the two records of a request have company names, none of them shared
\* after trimming and lower-casing
CompanyMismatch ==
    /\ Len(records) = 2
    /\ KeySet(Get(records[1], "company_name")) # {}
    /\ KeySet(Get(records[2], "company_name")) # {}
    /\ KeySet(Get(records[1], "company_name"))
          \cap KeySet(Get(records[2], "company_name")) = {}

\* C14: when the two records merged have company names and share none after
\* trimming and lower-casing, the response carries a warning (the advisory
\* with both sides' company names).
C14_MismatchAdvisory ==
    (pc = "done" /\ response.status = 200 /\ CompanyMismatch) =>
        "warning" \in DOMAIN response.body
\* a value has content: it is not null, a string is not blank, a sequence
\* or a mapping holds a value that has content
RECURSIVE Content(_)
Content(x) ==
    /\ x # Null
    /\ x.t = "str" => Strip(x.v) # <<>>
    /\ x.t = "arr" => \E i \in 1..Len(x.v) : Content(x.v[i])
    /\ x.t = "map" => \E k \in DOMAIN x.v : Content(x.v[k])

\* the fields the emptiness of a record depends on
EmptinessFields == KeyFields \cup {"social_media_profiles"}

\* the emptiness check found the record empty
FoundEmpty ==
    warning_message # <<>> /\ Head(warning_message) = Head(EmptyWarning)

\* C18: is_empty_extraction is true of a record, the ids already added to
\* it, exactly when none of company_name, person_name, contact_numbers,
\* email_addresses, address, website, services, category and
\* social_media_profiles has content.
C18_EmptyIffNoContent ==
    pc \in {"upload", "respond"} =>
        (FoundEmpty <=>
            \A f \in EmptinessFields : ~Content(Get(extracted_data.data, f)))
\* process_images returned a record, and the record as it is after the ids
\* were added is empty
EmptyExtraction ==
    /\ pc = "done"
    /\ extracted_data # None
    /\ is_empty_extraction(extracted_data.data)

\* every field of the record is null (a missing key counted as null)
AllNull(d) ==
    /\ \A f \in KeyFields : Get(d, f) = Null
    /\ Get(d, "social_media_profiles").t = "map"
    /\ \A p \in SocialFields : SocialEntry(d, p) = Null

\* C19: a request whose extraction succeeds with an empty record is answered
\* with status 200 and success true, the record as data with every absent
\* field null, and the warning that the image may not be a visiting card.
C19_EmptyRecordWarned ==
    EmptyExtraction =>
        /\ response.status = 200
        /\ response.body.success
        /\ response.body.data = extracted_data.data
        /\ "warning" \in DOMAIN response.body
        /\ Head(response.body.warning) = Head(EmptyWarning)
        /\ AllNull(response.body.data)
\* the request has a list of images whose number is neither 1 nor 2
InvalidImageCount ==
    /\ request.data = "dict"
    /\ request.image_urls.t = "arr"
    /\ NumUrls \notin {1, 2}

\* C20: a request whose number of images is neither 1 nor 2 fails at once
\* with an error: no image is downloaded, the model is not called, nothing
\* is normalized, merged or uploaded, and nothing is done after the error.
C20_InvalidCountFailsFast ==
    InvalidImageCount =>
        /\ pc \in {"start", "done"}
        /\ images = 0 /\ texts = <<>> /\ records = <<>>
        /\ log = <<>> /\ uploads = <<>>
        /\ extracted_data = None
        /\ pc = "done" =>
              /\ response.status = 400
              /\ DOMAIN response.body = {"error"}

\* a request of three images answered with the error
C20_Witness ==
    /\ InvalidImageCount
    /\ NumUrls = 3
    /\ pc = "done"
    /\ response.status = 400
\* s is an initial part of t
IsPrefix(s, t) == Len(s) <= Len(t) /\ s = SubSeq(t, 1, Len(s))

\* the calls of a two-image request, in the order of the claim
TwoImageOrder ==
    <<<<"generate_response", 1>>, <<"generate_response", 2>>,
      <<"extract_information", 1>>, <<"extract_information", 2>>,
      <<"merge_extracted_data", 0>>, <<"is_empty_extraction", 0>>,
      <<"upload_data_to_s3", 0>>>>

\* a model call or a parse of the request has failed
ExtractionFailed ==
    /\ pc = "done"
    /\ Called("generate_response")
    /\ Len(texts) < 2 \/ Len(records) < 2

\* C22: in a two-image request the calls are made in the order model
\* response 1, model response 2, parse and normalize of each, merge,
\* emptiness check; the merge starts only when both records are there, the
\* emptiness check runs on the merged record only, and when a model call or
\* a parse fails there is no merge, no emptiness check and no upload.
C22_TwoImageOrder ==
    (request.data = "dict" /\ request.image_urls.t = "arr" /\ NumUrls = 2) =>
        /\ IsPrefix(log, TwoImageOrder)
        /\ (pc = "merge" \/ Called("merge_extracted_data")) => Len(records) = 2
        /\ Called("is_empty_extraction") =>
              /\ Called("merge_extracted_data")
              /\ merge_extracted_data(records[1], records[2]).kind = "ok"
              /\ extracted_data.data
                    = WithIds(merge_extracted_data(records[1], records[2]).data,
                              request.key_parts)
        /\ ExtractionFailed =>
              /\ ~Called("merge_extracted_data")
              /\ ~Called("is_empty_extraction")
              /\ ~Called("upload_data_to_s3")
              /\ uploads = <<>>
              /\ "error" \in DOMAIN response.body

\* a two-image request answered after all seven calls
C22_Witness ==
    /\ pc = "done"
    /\ response.status = 200
    /\ log = TwoImageOrder
    /\ records[1] # records[2]
\* the number of calls of name made so far
Calls(name) == Cardinality({i \in 1..Len(log) : log[i][1] = name})

UploadFailure == "However, failed to upload results to S3"

\* the upload was attempted and failed, and the request is answered
UploadFailed ==
    /\ pc = "done"
    /\ Called("upload_data_to_s3")
    /\ uploads = <<>>

\* C23: the upload is attempted at most once per request, only after the
\* extraction (and the merge of two images) has succeeded and only when
\* upload_results is set; after a failed upload the response is still 200
\* with success true and the same data, s3_result_key is null, and the
\* warning reports the failure after the emptiness warning, if there is one.
C23_UploadOnceNeverFatal ==
    /\ Calls("upload_data_to_s3") <= 1
    /\ Len(uploads) <= Calls("upload_data_to_s3")
    /\ Called("upload_data_to_s3") =>
          /\ request.upload_results
          /\ extracted_data # None
          /\ Len(records) = NumUrls
          /\ NumUrls = 2 => Called("merge_extracted_data")
    /\ UploadFailed =>
          /\ response.status = 200
          /\ response.body.success
          /\ response.body.data = extracted_data.data
          /\ response.body.s3_result_key = "None"
          /\ "warning" \in DOMAIN response.body
          /\ response.body.warning[Len(response.body.warning)] = UploadFailure
          /\ is_empty_extraction(extracted_data.data) =>
                response.body.warning = EmptyWarning \o <<UploadFailure>>

\* the failed upload of an empty record, both warnings in the response
C23_Witness ==
    /\ UploadFailed
    /\ is_empty_extraction(extracted_data.data)
    /\ response.status = 200
    /\ response.body.warning = EmptyWarning \o <<UploadFailure>>
====
